---- MODULE Spec2Model ----
(***************************************************************************)
(* Daily Tracker API (src/main.py): the activities table, the activity     *)
(* CRUD handlers and the trend/streak analytics of GET /trends, in the     *)
(* MySQL-backed and the SQLite-backed variant of the service.              *)
(*                                                                         *)
(* Representation                                                          *)
(*   - a Python `date` is its day number counted from 2023-01-01 (day 0);  *)
(*     `d - timedelta(days=k)` is d - k;                                   *)
(*   - a 'YYYY-MM-DD' string is the tuple <<year, month, day>>: the fields *)
(*     are zero padded and of fixed width, so string equality and string   *)
(*     order are tuple equality and lexicographic tuple order;             *)
(*   - a float rounded to one decimal is the integer number of tenths      *)
(*     (45.0 is 450);                                                      *)
(*   - SQL NULL / Python None is the empty tuple <<>>, a value v that is   *)
(*     present is <<v>>.                                                   *)
(***************************************************************************)
EXTENDS Integers, Sequences, FiniteSets, TLC

VARIABLES
    backend,       \* which variant of the service runs: "mysql" or "sqlite"
    today,         \* date.today() of the server clock
    activities,    \* the rows of table activities
    next_id,       \* the AUTO_INCREMENT / AUTOINCREMENT counter of activities.id
    users,         \* the rows of table users
    next_user_id,  \* AUTO_INCREMENT of users.id
    in_flight,     \* the user requests between their check and their write
    job,           \* the get_trends request in progress, query by query
    response       \* the response of the last request handled

vars == <<backend, today, activities, next_id, users, next_user_id, in_flight,
          job, response>>

(***************************************************************************)
(* Bounds of the model.                                                    *)
(***************************************************************************)
\* rows ever inserted through POST /activities
MaxActivities == 2
\* longest unbroken run of daily activity in the logs the analytics read
MaxRun == 40
\* rows ever inserted through POST /auth/register
MaxUsers == 2
\* user requests that are between their check and their write at one time
MaxInFlight == 2

(***************************************************************************)
(* Input domains.                                                          *)
(***************************************************************************)
Backends == {"mysql", "sqlite"}
\* user ids carried by valid tokens
UserIds == {1, 2}
\* 2024-01-03: the weekly and the monthly window reach back into 2023
TodayChoices == {367}
\* 2023-03-02 (the walk crosses February) and 2024-01-03
RunTodayChoices == {60, 367}
\* activity_date of a request, as an offset in days from today
DateOffsets == {-7, 1}
\* (a request body with duration 0 is among ApiActivityInputs)
DurationInputs == {30}
\* duration of the most recent day of a seeded run: 25 and 35 make the
\* averages fall between two tenths
RunDurations == {25, 30, 35}
NoDate == <<>>
NoMood == <<>>

\* CATEGORIES, in the insertion order of the dict
CATEGORIES ==
    << "Sleep", "Physical Activity/Exercise", "Nutrition/Meals",
       "Work/Productivity", "Personal Care/Hygiene", "Social/Leisure",
       "Household Chores/Maintenance", "Mindfulness/Mental Well-being",
       "Transportation/Commute", "Learning/Skill Development" >>

CategoryInputs == {"Sleep", "Nutrition/Meals"}

(***************************************************************************)
(* The calendar: date.strftime('%Y-%m-%d') and date.isoformat().           *)
(***************************************************************************)
IsLeap(y) == (y % 4 = 0 /\ y % 100 # 0) \/ (y % 400 = 0)

DaysInMonth(y, m) ==
    IF m = 2 THEN (IF IsLeap(y) THEN 29 ELSE 28)
    ELSE IF m \in {4, 6, 9, 11} THEN 30 ELSE 31

DaysInYear(y) == IF IsLeap(y) THEN 366 ELSE 365

RECURSIVE FromOrdinal(_, _, _)
FromOrdinal(n, y, m) ==
    IF m = 1 /\ n >= DaysInYear(y) THEN FromOrdinal(n - DaysInYear(y), y + 1, 1)
    ELSE IF n >= DaysInMonth(y, m) THEN FromOrdinal(n - DaysInMonth(y, m), y, m + 1)
    ELSE <<y, m, n + 1>>

\* the calendar of 2023 and 2024, tabulated once
CalendarTable == [d \in 0..730 |-> FromOrdinal(d, 2023, 1)]

\* d.strftime('%Y-%m-%d')
Strftime(d) == CalendarTable[d]

\* an order of the strings that looks at the day first, then month, then year
TextLessDayFirst(s1, s2) ==
    \/ s1[3] < s2[3]
    \/ s1[3] = s2[3] /\ s1[2] < s2[2]
    \/ s1[3] = s2[3] /\ s1[2] = s2[2] /\ s1[1] < s2[1]

\* s1 < s2 for two 'YYYY-MM-DD' strings
TextLess(s1, s2) ==
    \/ s1[1] < s2[1]
    \/ s1[1] = s2[1] /\ s1[2] < s2[2]
    \/ s1[1] = s2[1] /\ s1[2] = s2[2] /\ s1[3] < s2[3]

\* The column activity_date is a DATE in MySQL and compares as a date; in
\* SQLite the date was bound through sqlite3's date adapter (isoformat) and
\* is stored and compared as text.
DateLess(b, d1, d2) ==
    IF b = "mysql" THEN d1 < d2 ELSE TextLess(Strftime(d1), Strftime(d2))

DateGE(b, d1, d2) == ~DateLess(b, d1, d2)

(***************************************************************************)
(* The queries of get_trends.                                              *)
(***************************************************************************)
\* WHERE user_id = %s AND category = %s
RowsOfAnyUser(user_id, category) ==
    {r \in activities : r.category = category}

RowsOf(user_id, category) ==
    {r \in activities : r.user_id = user_id /\ r.category = category}

\* WHERE user_id = %s AND category = %s AND activity_date >= %s
RowsSince(b, user_id, category, since) ==
    {r \in RowsOf(user_id, category) : DateGE(b, r.activity_date, since)}

\* SUM(duration_minutes) over a group of rows
RECURSIVE SumDuration(_)
SumDuration(rows) ==
    IF rows = {} THEN 0
    ELSE LET r == CHOOSE x \in rows : TRUE
         IN  r.duration_minutes + SumDuration(rows \ {r})

\* GROUP BY activity_date: the dates of the groups, and one group's total
GroupDates(rows) == {r.activity_date : r \in rows}

DailyTotal(rows, d) == SumDuration({r \in rows : r.activity_date = d})

RECURSIVE SumTotals(_, _)
SumTotals(rows, dates) ==
    IF dates = {} THEN 0
    ELSE LET d == CHOOSE x \in dates : TRUE
         IN  DailyTotal(rows, d) + SumTotals(rows, dates \ {d})

\* a / b rounded to the nearest integer, halves away from zero (a, b >= 0)
DivHalfUp(a, b) == (2 * a + b) \div (2 * b)

\* a / b rounded to the nearest integer, halves to the even neighbour
DivHalfEven(a, b) ==
    LET q == a \div b
        r == a % b
    IN  IF 2 * r < b THEN q
        ELSE IF 2 * r > b THEN q + 1
        ELSE IF q % 2 = 0 THEN q ELSE q + 1

\* AVG(duration_minutes) over the rows, without the grouping by date
AvgPerRow(b, rows) ==
    LET n == Cardinality(rows)
        s == SumDuration(rows)
    IN  IF n = 0 THEN <<>>
        ELSE IF b = "mysql"
             THEN << [num |-> DivHalfUp(10000 * s, n), den |-> 10000] >>
             ELSE << [num |-> s, den |-> n] >>

\* SELECT AVG(daily_total) FROM (SELECT ... GROUP BY activity_date): NULL over
\* no group. MySQL averages the DECIMAL sums into a DECIMAL of four decimals
\* (rounded half up); SQLite divides the sum by the count as a double. The
\* value is the fraction num / den.
AvgDailyTotal(b, rows) ==
    LET dates == GroupDates(rows)
        n     == Cardinality(dates)
        s     == SumTotals(rows, dates)
    IN  IF n = 0 THEN <<>>
        ELSE IF b = "mysql"
             THEN << [num |-> DivHalfUp(10000 * s, n), den |-> 10000] >>
             ELSE << [num |-> s, den |-> n] >>

\* round(float(avg) if avg else 0, 1)  /  round(avg or 0, 1), in tenths.
\* Python rounds the double correctly; a value halfway between two tenths
\* that is a multiple of 1/4 is exact as a double and goes to the even tenth
\* (the durations of the model are multiples of 5, every tie is of this kind).
RoundAvg(avg) ==
    IF avg = <<>> THEN 0
    ELSE IF avg[1].num = 0 THEN 0
    ELSE DivHalfEven(10 * avg[1].num, avg[1].den)

\* the rows in the opposite order
RECURSIVE OrderByDateReversed(_, _)
OrderByDateReversed(b, dates) ==
    IF dates = {} THEN <<>>
    ELSE LET m == CHOOSE d \in dates : \A e \in dates : ~DateLess(b, d, e)
         IN  <<m>> \o OrderByDateReversed(b, dates \ {m})

\* ORDER BY activity_date
RECURSIVE OrderByDate(_, _)
OrderByDate(b, dates) ==
    IF dates = {} THEN <<>>
    ELSE LET m == CHOOSE d \in dates : \A e \in dates : ~DateLess(b, e, d)
         IN  <<m>> \o OrderByDate(b, dates \ {m})

\* ORDER BY activity_date DESC
OrderByDateDesc(b, dates) ==
    LET asc == OrderByDate(b, dates)
    IN  [i \in 1..Len(asc) |-> asc[Len(asc) + 1 - i]]

\* the dates of the category's rows, without the condition on user_id
StreakDatesOfAnyUser(b, user_id, category) ==
    LET ds == OrderByDateDesc(b, GroupDates({r \in activities : r.category = category}))
    IN  [i \in 1..Len(ds) |-> Strftime(ds[i])]

\* dates = [row['activity_date'] as 'YYYY-MM-DD' for row in cursor.fetchall()]
\* of SELECT DISTINCT activity_date ... ORDER BY activity_date DESC
StreakDates(b, user_id, category) ==
    LET ds == OrderByDateDesc(b, GroupDates(RowsOf(user_id, category)))
    IN  [i \in 1..Len(ds) |-> Strftime(ds[i])]

\* for activity_date in dates: if activity_date == current_date.strftime(..):
\*     streak += 1; current_date -= timedelta(days=1)  else: break
RECURSIVE StreakLoop(_, _, _, _)
StreakLoop(dates, i, current_date, streak) ==
    IF i > Len(dates) THEN streak
    ELSE IF dates[i] = Strftime(current_date)
         THEN StreakLoop(dates, i + 1, current_date - 1, streak + 1)
         ELSE streak

\* a streak that survives a day without activity: when today has none, the
\* walk starts yesterday
StreakDaysFromYesterday(dates, end_date) ==
    LET s == StreakLoop(dates, 1, end_date, 0)
    IN  IF s > 0 THEN s ELSE StreakLoop(dates, 1, end_date - 1, 0)

\* a counter that starts at 1
StreakDaysFromOne(dates, end_date) == StreakLoop(dates, 1, end_date, 1)

\* a walk over the dates of the 30-day window only (at most 31 dates)
StreakDaysCapped(dates, end_date) ==
    StreakLoop(SubSeq(dates, 1, IF Len(dates) < 31 THEN Len(dates) ELSE 31),
               1, end_date, 0)

\* streak = 0; current_date = end_date; the loop
StreakDays(dates, end_date) == StreakLoop(dates, 1, end_date, 0)

\* the number of times the body of `for activity_date in dates` runs: once
\* per matching date, and once more for the date that breaks the loop
RECURSIVE WalkLoop(_, _, _, _)
WalkLoop(dates, i, current_date, steps) ==
    IF i > Len(dates) THEN steps
    ELSE IF dates[i] = Strftime(current_date)
         THEN WalkLoop(dates, i + 1, current_date - 1, steps + 1)
         ELSE steps + 1

\* a walk that steps the cursor back over the days without activity
RECURSIVE WalkLoopOverGaps(_, _, _, _)
WalkLoopOverGaps(dates, i, current_date, steps) ==
    IF i > Len(dates) THEN steps
    ELSE IF dates[i] = Strftime(current_date)
         THEN WalkLoopOverGaps(dates, i + 1, current_date - 1, steps + 1)
         ELSE IF TextLess(dates[i], Strftime(current_date))
              THEN WalkLoopOverGaps(dates, i, current_date - 1, steps + 1)
              ELSE steps + 1

WalkStepsOverGaps(dates, end_date) == WalkLoopOverGaps(dates, 1, end_date, 0)

WalkSteps(dates, end_date) == WalkLoop(dates, 1, end_date, 0)

\* data_points: one {"date", "minutes"} per row of
\* SELECT activity_date, SUM(duration_minutes) ... GROUP BY activity_date
\* ORDER BY activity_date
DataPoints(b, rows) ==
    LET ds == OrderByDate(b, GroupDates(rows))
    IN  [i \in 1..Len(ds) |->
            [date |-> Strftime(ds[i]), minutes |-> DailyTotal(rows, ds[i])]]

\* an iteration whose weekly average is taken over end_date - 6 and later
TrendDataWeekOfSix(b, user_id, category, end_date) ==
    [category        |-> category,
     weekly_average  |-> RoundAvg(AvgDailyTotal(b,
                             RowsSince(b, user_id, category, end_date - 6))),
     monthly_average |-> RoundAvg(AvgDailyTotal(b,
                             RowsSince(b, user_id, category, end_date - 30))),
     streak_days     |-> StreakDays(StreakDates(b, user_id, category), end_date),
     data_points     |-> DataPoints(b,
                             RowsSince(b, user_id, category, end_date - 7))]

\* one iteration of `for category in CATEGORIES`: the TrendData appended
TrendData(b, user_id, category, end_date) ==
    LET start_date == end_date - 30
        week_start == end_date - 7
    IN  [category        |-> category,
         weekly_average  |-> RoundAvg(AvgDailyTotal(b,
                                 RowsSince(b, user_id, category, week_start))),
         monthly_average |-> RoundAvg(AvgDailyTotal(b,
                                 RowsSince(b, user_id, category, start_date))),
         streak_days     |-> StreakDays(StreakDates(b, user_id, category), end_date),
         data_points     |-> DataPoints(b,
                                 RowsSince(b, user_id, category, week_start))]

\* the elements of a set, one after the other
RECURSIVE SeqOfSet(_)
SeqOfSet(S) ==
    IF S = {} THEN <<>>
    ELSE LET x == CHOOSE y \in S : TRUE IN <<x>> \o SeqOfSet(S \ {x})

\* a list with one entry per category the user has stored rows of
TrendsOfStoredCategories(b, user_id, end_date) ==
    LET cats == SeqOfSet({r.category : r \in {x \in activities : x.user_id = user_id}})
    IN  [i \in 1..Len(cats) |-> TrendData(b, user_id, cats[i], end_date)]

\* trends = []; for category in CATEGORIES: ... trends.append(TrendData(...))
Trends(b, user_id, end_date) ==
    [i \in 1..Len(CATEGORIES) |-> TrendData(b, user_id, CATEGORIES[i], end_date)]

\* SUM(mood_rating) over the rows that have one
RECURSIVE SumMood(_)
SumMood(rows) ==
    IF rows = {} THEN 0
    ELSE LET r == CHOOSE x \in rows : TRUE
         IN  r.mood_rating[1] + SumMood(rows \ {r})

\* AVG(mood_rating): NULL ratings are left out, NULL when none is left
AvgMood(b, rows) ==
    LET rated == {r \in rows : r.mood_rating # NoMood}
        n     == Cardinality(rated)
        s     == SumMood(rated)
    IN  IF n = 0 THEN <<>>
        ELSE IF b = "mysql"
             THEN << [num |-> DivHalfUp(10000 * s, n), den |-> 10000] >>
             ELSE << [num |-> s, den |-> n] >>

\* one value of the categories dict of get_daily_summary, for a category
\* returned by the GROUP BY category query; average_mood and percentage are
\* in tenths (the totals of the model give no tie at the second decimal)
SummaryEntry(b, rows, category, total_logged_minutes) ==
    LET mine == {r \in rows : r.category = category}
        avg  == AvgMood(b, mine)
    IN  [duration_minutes |-> SumDuration(mine),
         entry_count      |-> Cardinality(mine),
         average_mood     |-> IF avg = <<>> THEN <<>> ELSE <<RoundAvg(avg)>>,
         percentage       |-> IF total_logged_minutes > 0
                              THEN DivHalfEven(1000 * SumDuration(mine),
                                               total_logged_minutes)
                              ELSE 0]

\* the entry added for each element of CATEGORIES without rows on the date
MissingEntry ==
    [duration_minutes |-> 0, entry_count |-> 0, average_mood |-> <<>>,
     percentage |-> 0]

\* A summary_date that strptime('%Y-%m-%d') accepts: the text of a day,
\* written with two digits for month and day ('2024-01-03') or without the
\* leading zeros ('2024-1-3').
DateText(d, padded) == [day |-> d, padded |-> padded]

\* datetime.strptime(summary_date, '%Y-%m-%d').date()
Strptime(text) == text.day

\* the text is the 'YYYY-MM-DD' text of its day
IsIsoText(text) ==
    text.padded \/ (Strftime(text.day)[2] >= 10 /\ Strftime(text.day)[3] >= 10)

\* WHERE activity_date = <summary_date>: MySQL converts the text to a DATE
\* (leading zeros are optional), SQLite compares it with the stored ISO text
RowDateIs(b, d, text) ==
    IF b = "mysql" THEN d = Strptime(text)
    ELSE d = Strptime(text) /\ IsIsoText(text)

\* the DailySummary of the user's rows dated summary_date
DailySummary(b, user_id, summary_date) ==
    LET d      == Strptime(summary_date)
        rows   == {r \in activities : /\ r.user_id = user_id
                                      /\ RowDateIs(b, r.activity_date, summary_date)}
        logged == {r.category : r \in rows}
        keys   == logged \cup {CATEGORIES[i] : i \in 1..Len(CATEGORIES)}
        total  == SumDuration(rows)
        categories == [c \in keys |-> IF c \in logged
                                      THEN SummaryEntry(b, rows, c, total)
                                      ELSE MissingEntry]
    IN  [date                  |-> Strftime(d),
         total_logged_minutes  |-> total,
         categories            |-> categories,
         completion_percentage |->
             (1000 * Cardinality({c \in keys : categories[c].duration_minutes > 0}))
                 \div Len(CATEGORIES)]

(***************************************************************************)
(* The handlers.                                                           *)
(***************************************************************************)
\* no get_trends request is between two of its queries
Idle == <<>>

\* ActivityCreate: duration_minutes >= 0, activity_date optional
ActivityInputs ==
    [category         : CategoryInputs,
     duration_minutes : DurationInputs,
     mood_rating      : {NoMood},
     activity_date    : {NoDate} \cup {<<today + o>> : o \in DateOffsets}]

\* activity.activity_date or date.today()
DateOrToday(activity) ==
    IF activity.activity_date = NoDate THEN today ELSE activity.activity_date[1]

Row(id, user_id, activity) ==
    [id               |-> id,
     user_id          |-> user_id,
     category         |-> activity.category,
     duration_minutes |-> activity.duration_minutes,
     mood_rating      |-> activity.mood_rating,
     activity_date    |-> DateOrToday(activity)]

\* the Field constraints of ActivityCreate, checked by FastAPI before the
\* handler runs: duration_minutes ge=0; mood_rating None or ge=1, le=5
ValidActivityAnyMood(activity) == activity.duration_minutes >= 0

ValidActivity(activity) ==
    /\ activity.duration_minutes >= 0
    /\ \/ activity.mood_rating = NoMood
       \/ (activity.mood_rating[1] >= 1 /\ activity.mood_rating[1] <= 5)

\* 422 Unprocessable Entity
Rejected(op, user_id) ==
    [op |-> op, user_id |-> user_id, status |-> 422, body |-> <<>>]

\* POST /activities
CreateActivity(user_id, activity) ==
    /\ next_id <= MaxActivities
    /\ IF ~ValidActivity(activity)
       THEN /\ response' = Rejected("create_activity", user_id)
            /\ UNCHANGED <<activities, next_id>>
       ELSE IF backend = "mysql" /\ ~\E u \in users : u.id = user_id
       THEN \* FOREIGN KEY (user_id) REFERENCES users(id): the INSERT fails,
            \* and the engine may or may not have used up the id
            /\ response' = [op |-> "create_activity", user_id |-> user_id,
                            status |-> 500, body |-> <<>>]
            /\ next_id' \in {next_id, next_id + 1}
            /\ UNCHANGED activities
       ELSE /\ activities' = activities \cup {Row(next_id, user_id, activity)}
            /\ next_id' = next_id + 1
            /\ response' = [op |-> "create_activity", user_id |-> user_id,
                            status |-> 200,
                            body |-> <<Row(next_id, user_id, activity)>>]
    /\ UNCHANGED <<backend, today, users, next_user_id, in_flight, job>>

\* PUT /activities/{activity_id}: the MySQL variant selects the row first and
\* answers 404 when there is none, the SQLite variant updates and answers 404
\* when rowcount is 0
UpdateActivity(user_id, activity_id, activity) ==
    LET hit == {r \in activities : r.id = activity_id /\ r.user_id = user_id}
    IN  /\ IF ~ValidActivity(activity)
           THEN /\ response' = Rejected("update_activity", user_id)
                /\ UNCHANGED activities
           ELSE IF hit = {}
           THEN /\ response' = [op |-> "update_activity", user_id |-> user_id,
                                status |-> 404, body |-> <<>>]
                /\ UNCHANGED activities
           ELSE /\ activities' = (activities \ hit)
                                     \cup {Row(activity_id, user_id, activity)}
                /\ response' = [op |-> "update_activity", user_id |-> user_id,
                                status |-> 200, body |-> <<>>]
        /\ UNCHANGED <<backend, today, next_id, users, next_user_id, in_flight, job>>

\* a delete with WHERE id = %s only
DeleteActivityOfAnyUser(user_id, activity_id) ==
    LET hit == {r \in activities : r.id = activity_id}
    IN  /\ activities' = activities \ hit
        /\ response' = [op |-> "delete_activity", user_id |-> user_id,
                        status |-> IF hit = {} THEN 404 ELSE 200, body |-> <<>>]
        /\ UNCHANGED <<backend, today, next_id, users, next_user_id, in_flight, job>>

\* DELETE /activities/{activity_id}
DeleteActivity(user_id, activity_id) ==
    LET hit == {r \in activities : r.id = activity_id /\ r.user_id = user_id}
    IN  /\ activities' = activities \ hit
        /\ response' = [op |-> "delete_activity", user_id |-> user_id,
                        status |-> IF hit = {} THEN 404 ELSE 200, body |-> <<>>]
        /\ UNCHANGED <<backend, today, next_id, users, next_user_id, in_flight, job>>

\* GET /activities/{activity_id} (MySQL variant)
GetActivity(user_id, activity_id) ==
    LET hit == {r \in activities : r.id = activity_id /\ r.user_id = user_id}
    IN  /\ backend = "mysql"
        /\ response' = IF hit = {}
                       THEN [op |-> "get_activity", user_id |-> user_id,
                             status |-> 404, body |-> <<>>]
                       ELSE [op |-> "get_activity", user_id |-> user_id,
                             status |-> 200, body |-> <<CHOOSE r \in hit : TRUE>>]
        /\ UNCHANGED <<backend, today, activities, next_id, users, next_user_id, in_flight, job>>

\* the handler delete_multiple_activities (MySQL variant):
\* DELETE FROM activities WHERE id IN (...) AND user_id = %s
DeleteMultipleActivities(user_id, activity_ids) ==
    LET hit == {r \in activities : r.id \in activity_ids /\ r.user_id = user_id}
    IN  /\ backend = "mysql"
        /\ IF activity_ids = {}
           THEN /\ response' = [op |-> "delete_multiple_activities",
                                user_id |-> user_id, status |-> 400, body |-> <<>>]
                /\ UNCHANGED activities
           ELSE /\ activities' = activities \ hit
                /\ response' = [op |-> "delete_multiple_activities",
                                user_id |-> user_id, status |-> 200,
                                body |-> <<[deleted_count |-> Cardinality(hit)]>>]
        /\ UNCHANGED <<backend, today, next_id, users, next_user_id, in_flight, job>>

\* the handler delete_activities_by_date (MySQL variant):
\* DELETE FROM activities WHERE activity_date = %s AND user_id = %s
DeleteActivitiesByDate(user_id, activity_date) ==
    LET hit == {r \in activities : /\ r.user_id = user_id
                                   /\ RowDateIs(backend, r.activity_date,
                                                activity_date)}
    IN  /\ backend = "mysql"
        /\ activities' = activities \ hit
        /\ response' = [op |-> "delete_activities_by_date", user_id |-> user_id,
                        status |-> 200,
                        body |-> <<[deleted_count |-> Cardinality(hit)]>>]
        /\ UNCHANGED <<backend, today, next_id, users, next_user_id, in_flight, job>>

(***************************************************************************)
(* Routing. A path is the list of its segments; FastAPI tries the routes   *)
(* in the order of registration and takes the first whose method and path  *)
(* pattern match; a path parameter matches any one segment, and its        *)
(* conversion to the declared type happens after the route is chosen.      *)
(***************************************************************************)
Routes ==
    << [method |-> "POST",   path |-> <<"activities">>,
                             handler |-> "create_activity"],
       [method |-> "GET",    path |-> <<"activities">>,
                             handler |-> "get_activities"],
       [method |-> "GET",    path |-> <<"activities", "{activity_id}">>,
                             handler |-> "get_activity"],
       [method |-> "PUT",    path |-> <<"activities", "{activity_id}">>,
                             handler |-> "update_activity"],
       [method |-> "DELETE", path |-> <<"activities", "{activity_id}">>,
                             handler |-> "delete_activity"],
       [method |-> "DELETE", path |-> <<"activities", "bulk">>,
                             handler |-> "delete_multiple_activities"],
       [method |-> "DELETE", path |-> <<"activities", "date", "{activity_date}">>,
                             handler |-> "delete_activities_by_date"] >>

IsParam(segment) == segment \in {"{activity_id}", "{activity_date}"}

Matches(route, method, path) ==
    /\ route.method = method
    /\ Len(route.path) = Len(path)
    /\ \A k \in 1..Len(path) : IsParam(route.path[k]) \/ route.path[k] = path[k]

\* the handler of the first route that matches
Route(method, path) ==
    LET found == {i \in 1..Len(Routes) : Matches(Routes[i], method, path)}
    IN  IF found = {} THEN "none"
        ELSE Routes[CHOOSE i \in found : \A j \in found : i <= j].handler

\* the decimal text of an id, and int() of a path segment (<<>>: not an int)
Digits == <<"1", "2", "3", "4", "5", "6", "7", "8", "9">>

ParseInt(segment) ==
    IF \E n \in 1..Len(Digits) : Digits[n] = segment
    THEN <<CHOOSE n \in 1..Len(Digits) : Digits[n] = segment>>
    ELSE <<>>

\* a DELETE request under /activities, with a JSON list of ids as its body
HttpDelete(user_id, path, activity_ids) ==
    LET handler == Route("DELETE", path)
    IN  CASE handler = "delete_activity" ->
                 IF ParseInt(path[2]) = <<>>
                 THEN /\ response' = Rejected("delete_activity", user_id)
                      /\ UNCHANGED <<backend, today, activities, next_id, users, next_user_id, in_flight,
                                     job>>
                 ELSE DeleteActivity(user_id, ParseInt(path[2])[1])
          [] handler = "delete_multiple_activities" ->
                 DeleteMultipleActivities(user_id, activity_ids)
          [] handler = "delete_activities_by_date" ->
                 DeleteActivitiesByDate(user_id, path[3])

\* a get_trends that removes the rows it has read
GetTrendsConsuming(user_id) ==
    /\ response' = [op |-> "get_trends", user_id |-> user_id, status |-> 200,
                    body |-> Trends(backend, user_id, today),
                    walk |-> <<>>]
    /\ activities' = {r \in activities : r.user_id # user_id}
    /\ UNCHANGED <<backend, today, next_id, users, next_user_id, in_flight, job>>

\* GET /trends, all its queries answered from one state of the table. `walk`
\* is not part of the response: it records, per category, how often the
\* body of the streak loop ran.
GetTrends(user_id) ==
    /\ response' = [op |-> "get_trends", user_id |-> user_id, status |-> 200,
                    body |-> Trends(backend, user_id, today),
                    walk |-> [i \in 1..Len(CATEGORIES) |->
                                 WalkSteps(StreakDates(backend, user_id, CATEGORIES[i]),
                                           today)]]
    /\ UNCHANGED <<backend, today, activities, next_id, users, next_user_id, in_flight, job>>

\* GET /trends when one of its queries raises: the exception leaves the
\* handler (the MySQL get_db turns it into HTTPException 500, the SQLite one
\* lets it through), the connection is closed, nothing is returned
GetTrendsFails(user_id) ==
    /\ response' = [op |-> "get_trends", user_id |-> user_id, status |-> 500,
                    body |-> <<>>]
    /\ UNCHANGED <<backend, today, activities, next_id, users, next_user_id, in_flight, job>>

\* a summary_date that is not of the form YYYY-MM-DD
NotADate == <<>>

\* GET /summary/{summary_date}: no row matches a text that is not a date,
\* and strptime raises ValueError on it after the query (500)
GetDailySummary(user_id, summary_date) ==
    /\ response' =
           IF summary_date = NotADate
           THEN [op |-> "get_daily_summary", user_id |-> user_id,
                 status |-> 500, body |-> <<>>]
           ELSE [op |-> "get_daily_summary", user_id |-> user_id,
                 status |-> 200,
                 body |-> <<DailySummary(backend, user_id, summary_date)>>]
    /\ UNCHANGED <<backend, today, activities, next_id, users, next_user_id, in_flight, job>>

(***************************************************************************)
(* The users table and the requests on it.                                 *)
(***************************************************************************)
Emails == <<"a@x", "b@x">>

EmailInputs == {Emails[k] : k \in 1..Len(Emails)}

Passwords == {"p", "q"}

\* hashlib.sha256(password.encode()).hexdigest(): injective on Passwords
HashPassword(password) == <<"sha256", password>>

VerifyPassword(password, hashed) == HashPassword(password) = hashed

UserResponse(op, user_id, status) ==
    [op |-> op, user_id |-> user_id, status |-> status, body |-> <<>>]

\* INSERT INTO users (email, password_hash, ...) and the answer of register
InsertUser(email, password) ==
    /\ users' = users \cup {[id |-> next_user_id, email |-> email,
                              password_hash |-> HashPassword(password)]}
    /\ next_user_id' = next_user_id + 1
    /\ response' = [op |-> "register", user_id |-> next_user_id, status |-> 200,
                    body |-> <<[id |-> next_user_id, email |-> email]>>]

\* POST /auth/register handled without another request in between
Register(email, password) ==
    /\ next_user_id <= MaxUsers
    /\ IF \E u \in users : u.email = email
       THEN /\ response' = UserResponse("register", 0, 400)
            /\ UNCHANGED <<users, next_user_id>>
       ELSE InsertUser(email, password)
    /\ UNCHANGED <<backend, today, activities, next_id, in_flight, job>>

\* the answer of POST /auth/login
LoginStatus(email, password) ==
    IF \E u \in users : u.email = email /\ VerifyPassword(password, u.password_hash)
    THEN 200 ELSE 401

\* POST /auth/login
Login(email, password) ==
    /\ response' =
           IF LoginStatus(email, password) = 200
           THEN [op |-> "login", status |-> 200, body |-> <<>>,
                 user_id |-> (CHOOSE u \in users : u.email = email).id]
           ELSE UserResponse("login", 0, 401)
    /\ UNCHANGED <<backend, today, activities, next_id, users, next_user_id,
                   in_flight, job>>

\* the body has no email (None)
NoEmail == "None"

\* UPDATE users SET email = %s WHERE id = %s and the rowcount test; a row
\* set to the values it has counts as matched or as not changed, depending
\* on the connection flags
WriteProfile(user_id, email) ==
    LET row == {u \in users : u.id = user_id}
    IN  IF row = {}
        THEN /\ response' = UserResponse("update_user_profile", user_id, 404)
             /\ UNCHANGED users
        ELSE /\ users' = {IF u.id = user_id THEN [u EXCEPT !.email = email] ELSE u :
                             u \in users}
             /\ \/ response' = [op |-> "update_user_profile", user_id |-> user_id,
                                 status |-> 200,
                                 body |-> <<[id |-> user_id, email |-> email]>>]
                \/ /\ \A u \in row : u.email = email
                   /\ response' = UserResponse("update_user_profile", user_id, 404)

\* PUT /auth/profile handled without another request in between (of the
\* fields of the body only email is kept)
UpdateUserProfile(user_id, email) ==
    /\ backend = "mysql"
    /\ IF email # NoEmail /\ \E u \in users : u.email = email /\ u.id # user_id
       THEN /\ response' = UserResponse("update_user_profile", user_id, 400)
            /\ UNCHANGED users
       ELSE IF email = NoEmail
       THEN /\ response' = UserResponse("update_user_profile", user_id, 400)
            /\ UNCHANGED users
       ELSE WriteProfile(user_id, email)
    /\ UNCHANGED <<backend, today, activities, next_id, next_user_id, in_flight,
                   job>>

\* an update_password that does not look at current_password
UpdatePasswordUnchecked(user_id, current_password, new_password) ==
    /\ backend = "mysql"
    /\ IF ~\E u \in users : u.id = user_id
       THEN /\ response' = UserResponse("update_password", user_id, 404)
            /\ UNCHANGED users
       ELSE /\ users' = {IF u.id = user_id
                         THEN [u EXCEPT !.password_hash = HashPassword(new_password)]
                         ELSE u : u \in users}
            /\ response' = UserResponse("update_password", user_id, 200)
    /\ UNCHANGED <<backend, today, activities, next_id, next_user_id, in_flight,
                   job>>

\* PUT /auth/password
UpdatePassword(user_id, current_password, new_password) ==
    /\ backend = "mysql"
    /\ IF ~\E u \in users : u.id = user_id
       THEN /\ response' = UserResponse("update_password", user_id, 404)
            /\ UNCHANGED users
       ELSE IF ~\E u \in users : /\ u.id = user_id
                                  /\ VerifyPassword(current_password, u.password_hash)
       THEN /\ response' = UserResponse("update_password", user_id, 400)
            /\ UNCHANGED users
       ELSE /\ users' = {IF u.id = user_id
                         THEN [u EXCEPT !.password_hash = HashPassword(new_password)]
                         ELSE u : u \in users}
            /\ response' = UserResponse("update_password", user_id, 200)
    /\ UNCHANGED <<backend, today, activities, next_id, next_user_id, in_flight,
                   job>>

\* a delete_user on a schema without ON DELETE CASCADE checks
DeleteUserOnly(user_id) ==
    /\ backend = "mysql"
    /\ IF ~\E u \in users : u.id = user_id
       THEN /\ response' = UserResponse("delete_user", user_id, 404)
            /\ UNCHANGED users
       ELSE /\ users' = {u \in users : u.id # user_id}
            /\ response' = UserResponse("delete_user", user_id, 200)
    /\ UNCHANGED <<backend, today, activities, next_id, next_user_id, in_flight,
                   job>>

\* DELETE /auth/user; the activities of the user go with the row, by
\* FOREIGN KEY (user_id) REFERENCES users(id) ON DELETE CASCADE
DeleteUser(user_id) ==
    /\ backend = "mysql"
    /\ IF ~\E u \in users : u.id = user_id
       THEN /\ response' = UserResponse("delete_user", user_id, 404)
            /\ UNCHANGED <<users, activities>>
       ELSE /\ users' = {u \in users : u.id # user_id}
            /\ activities' = {r \in activities : r.user_id # user_id}
            /\ response' = UserResponse("delete_user", user_id, 200)
    /\ UNCHANGED <<backend, today, next_id, next_user_id, in_flight, job>>

NoResponse == [op |-> "none", user_id |-> 0, status |-> 0, body |-> <<>>]

\* the users that registered (POST /auth/register) and hold the tokens
RegisteredUsers ==
    {[id |-> u, email |-> Emails[u], password_hash |-> HashPassword("p")] :
        u \in UserIds}

\* after init_db() and the registration of the users: no activity yet
Init ==
    /\ backend \in Backends
    /\ today \in TodayChoices
    /\ activities = {}
    /\ next_id = 1
    /\ users = RegisteredUsers
    /\ next_user_id = Cardinality(UserIds) + 1
    /\ in_flight = {}
    /\ job = Idle
    /\ response = NoResponse

Next ==
    \/ \E u \in UserIds, a \in ActivityInputs : CreateActivity(u, a)
    \/ \E u \in UserIds, id \in 1..MaxActivities, a \in ActivityInputs :
           UpdateActivity(u, id, a)
    \/ \E u \in UserIds, id \in 1..MaxActivities : DeleteActivity(u, id)
    \/ \E u \in UserIds : GetTrends(u)

Spec == Init /\ [][Next]_vars

(***************************************************************************)
(* The request validation and the read-only handlers: the same handlers,   *)
(* with request bodies that include values outside the Field constraints   *)
(* and a category that is not one of CATEGORIES.                           *)
(***************************************************************************)
ApiActivity(category, minutes, mood, d) ==
    [category |-> category, duration_minutes |-> minutes, mood_rating |-> mood,
     activity_date |-> d]

ApiActivityInputs ==
    {ApiActivity(c, 30, NoMood, NoDate) : c \in {"Sleep", "Gaming"}}
    \cup {ApiActivity("Sleep", m, NoMood, NoDate) : m \in {-1, 0}}
    \cup {ApiActivity("Sleep", 30, <<m>>, NoDate) : m \in {0, 5, 6}}
    \cup {ApiActivity("Sleep", 30, NoMood, <<today - 1>>)}

SummaryDateInputs ==
    {DateText(today, TRUE), DateText(today - 1, TRUE), DateText(today, FALSE),
     NotADate}

NextApi ==
    \/ \E u \in UserIds, a \in ApiActivityInputs : CreateActivity(u, a)
    \/ \E u \in UserIds, id \in 1..MaxActivities, a \in ApiActivityInputs :
           UpdateActivity(u, id, a)
    \/ \E u \in UserIds, id \in 1..MaxActivities : DeleteActivity(u, id)
    \/ \E u \in UserIds : GetTrends(u)
    \/ \E u \in UserIds : GetTrendsFails(u)
    \/ \E u \in UserIds, d \in SummaryDateInputs : GetDailySummary(u, d)

SpecApi == Init /\ [][NextApi]_vars

(***************************************************************************)
(* get_trends query by query. The connection is opened with autocommit and *)
(* the handler starts no transaction: each cursor.execute reads the table  *)
(* as it is when the statement runs, and the requests of other server      *)
(* processes commit between two statements.                                *)
(***************************************************************************)
\* with get_db() as conn: ... end_date = date.today(); trends = []
\* `seen` is not state of the handler: it collects, for the category being
\* computed, the entry that each state of the table read so far would give
StartTrends(user_id) ==
    /\ job = Idle
    /\ job' = [user_id |-> user_id, i |-> 1, q |-> 1,
               monthly |-> 0, weekly |-> 0, streak |-> 0,
               trends |-> <<>>, seen |-> {}, snapshots |-> <<>>]
    /\ UNCHANGED <<backend, today, activities, next_id, users, next_user_id, in_flight, response>>

\* the next cursor.execute of the loop and the code up to the one after it;
\* the fourth query of a category ends with trends.append, the fourth query
\* of the last category with the return
TrendsQuery ==
    /\ job # Idle
    /\ LET u     == job.user_id
           c     == CATEGORIES[job.i]
           saw   == job.seen \cup {TrendData(backend, u, c, today)}
           entry == [category        |-> c,
                     weekly_average  |-> job.weekly,
                     monthly_average |-> job.monthly,
                     streak_days     |-> job.streak,
                     data_points     |->
                         DataPoints(backend, RowsSince(backend, u, c, today - 7))]
       IN  CASE job.q = 1 ->
                  /\ job' = [job EXCEPT !.q = 2, !.seen = saw,
                               !.monthly = RoundAvg(AvgDailyTotal(backend,
                                   RowsSince(backend, u, c, today - 30)))]
                  /\ UNCHANGED response
             [] job.q = 2 ->
                  /\ job' = [job EXCEPT !.q = 3, !.seen = saw,
                               !.weekly = RoundAvg(AvgDailyTotal(backend,
                                   RowsSince(backend, u, c, today - 7)))]
                  /\ UNCHANGED response
             [] job.q = 3 ->
                  /\ job' = [job EXCEPT !.q = 4, !.seen = saw,
                               !.streak = StreakDays(StreakDates(backend, u, c),
                                                     today)]
                  /\ UNCHANGED response
             [] job.q = 4 /\ job.i < Len(CATEGORIES) ->
                  /\ job' = [job EXCEPT !.i = job.i + 1, !.q = 1, !.seen = {},
                               !.monthly = 0, !.weekly = 0, !.streak = 0,
                               !.trends = Append(job.trends, entry),
                               !.snapshots = Append(job.snapshots, saw)]
                  /\ UNCHANGED response
             [] job.q = 4 /\ job.i = Len(CATEGORIES) ->
                  /\ job' = Idle
                  /\ response' = [op |-> "get_trends", user_id |-> u,
                                  status |-> 200,
                                  body |-> Append(job.trends, entry),
                                  snapshots |-> Append(job.snapshots, saw)]
    /\ UNCHANGED <<backend, today, activities, next_id, users, next_user_id, in_flight>>

\* a handler that catches the error of a query and returns what it has
TrendsQueryFailsQuietly ==
    /\ job # Idle
    /\ job' = Idle
    /\ response' = [op |-> "get_trends", user_id |-> job.user_id,
                    status |-> 200, body |-> job.trends,
                    snapshots |-> job.snapshots]
    /\ UNCHANGED <<backend, today, activities, next_id, users, next_user_id, in_flight>>

\* the next cursor.execute raises: the exception leaves the loop and the
\* handler, get_db answers HTTPException 500 and closes the connection; the
\* trends list built so far is dropped
TrendsQueryFails ==
    /\ job # Idle
    /\ job' = Idle
    /\ response' = [op |-> "get_trends", user_id |-> job.user_id,
                    status |-> 500, body |-> <<>>, snapshots |-> <<>>]
    /\ UNCHANGED <<backend, today, activities, next_id, users, next_user_id, in_flight>>

ConcurrentActivityInputs ==
    [category         : {"Sleep"},
     duration_minutes : {30},
     mood_rating      : {NoMood},
     activity_date    : {NoDate}]

NextConcurrent ==
    \/ \E u \in UserIds : StartTrends(u)
    \/ TrendsQuery
    \/ TrendsQueryFails
    \/ \E u \in UserIds, a \in ConcurrentActivityInputs : CreateActivity(u, a)
    \/ \E u \in UserIds, id \in 1..MaxActivities : DeleteActivity(u, id)

SpecConcurrent == Init /\ [][NextConcurrent]_vars

(***************************************************************************)
(* Two users writing to the same category on the same days.                *)
(***************************************************************************)
SharedActivityInputs ==
    [category         : {"Sleep"},
     duration_minutes : {30},
     mood_rating      : {NoMood},
     activity_date    : {NoDate, <<today - 1>>}]

NextShared ==
    \/ \E u \in UserIds, a \in SharedActivityInputs : CreateActivity(u, a)
    \/ \E u \in UserIds, id \in 1..MaxActivities, a \in SharedActivityInputs :
           UpdateActivity(u, id, a)
    \/ \E u \in UserIds, id \in 1..MaxActivities : DeleteActivity(u, id)
    \/ \E u \in UserIds : GetTrends(u)

SpecShared == Init /\ [][NextShared]_vars

(***************************************************************************)
(* The requests on single activities and the deletes, by two users.        *)
(***************************************************************************)
BulkPath == <<"activities", "bulk">>

DeletePaths ==
    {<<"activities", Digits[id]>> : id \in 1..MaxActivities}
    \cup {BulkPath}
    \cup {<<"activities", "date", DateText(today, padded)>> : padded \in BOOLEAN}

NextOwner ==
    \/ \E u \in UserIds, a \in SharedActivityInputs : CreateActivity(u, a)
    \/ \E u \in UserIds, id \in 1..MaxActivities : GetActivity(u, id)
    \/ \E u \in UserIds, id \in 1..MaxActivities, a \in SharedActivityInputs :
           UpdateActivity(u, id, a)
    \/ \E u \in UserIds, path \in DeletePaths,
          ids \in SUBSET (1..MaxActivities) : HttpDelete(u, path, ids)
    \/ \E u \in UserIds, ids \in SUBSET (1..MaxActivities) :
           DeleteMultipleActivities(u, ids)

SpecOwner == Init /\ [][NextOwner]_vars

(***************************************************************************)
(* The accounts: every request is handled whole, as by one server process. *)
(***************************************************************************)
TokenIds == 1..MaxUsers

UserActivityInputs ==
    {[category |-> "Sleep", duration_minutes |-> 30, mood_rating |-> NoMood,
      activity_date |-> NoDate]}

InitUsers ==
    /\ backend = "mysql"
    /\ today \in TodayChoices
    /\ activities = {}
    /\ next_id = 1
    /\ users = {}
    /\ next_user_id = 1
    /\ in_flight = {}
    /\ job = Idle
    /\ response = NoResponse

NextUsers ==
    \/ \E e \in EmailInputs, p \in Passwords : Register(e, p)
    \/ \E e \in EmailInputs, p \in Passwords : Login(e, p)
    \/ \E u \in TokenIds, e \in EmailInputs \cup {NoEmail} :
           UpdateUserProfile(u, e)
    \/ \E u \in TokenIds, p \in Passwords, q \in Passwords : UpdatePassword(u, p, q)
    \/ \E u \in TokenIds : DeleteUser(u)
    \/ \E u \in TokenIds, a \in UserActivityInputs : CreateActivity(u, a)

SpecUsers == InitUsers /\ [][NextUsers]_vars

(***************************************************************************)
(* The accounts under several server processes on one database: register   *)
(* and update_user_profile run statement by statement (autocommit), and    *)
(* requests of other processes come between the SELECT and the write.      *)
(***************************************************************************)
RegisterRequest(email, password) ==
    [op |-> "register", email |-> email, password |-> password]

ProfileRequest(user_id, email) ==
    [op |-> "update_user_profile", user_id |-> user_id, email |-> email]

\* register up to its SELECT id FROM users WHERE email = %s
RegisterCheck(email, password) ==
    LET request == RegisterRequest(email, password)
    IN  /\ request \notin in_flight
        /\ Cardinality(in_flight) < MaxInFlight
        /\ next_user_id <= MaxUsers
        /\ IF \E u \in users : u.email = email
           THEN /\ response' = UserResponse("register", 0, 400)
                /\ UNCHANGED in_flight
           ELSE /\ in_flight' = in_flight \cup {request}
                /\ UNCHANGED response
        /\ UNCHANGED <<backend, today, activities, next_id, users, next_user_id,
                       job>>

\* register from its INSERT on; email VARCHAR(255) UNIQUE makes the INSERT
\* of an email that is there by now fail, which get_db answers with 500, and
\* the engine may or may not have used up the id
RegisterInsert(request) ==
    /\ request.op = "register"
    /\ IF \E u \in users : u.email = request.email
       THEN /\ response' = UserResponse("register", 0, 500)
            /\ next_user_id' \in {next_user_id, next_user_id + 1}
            /\ UNCHANGED users
       ELSE InsertUser(request.email, request.password)
    /\ in_flight' = in_flight \ {request}
    /\ UNCHANGED <<backend, today, activities, next_id, job>>

\* update_user_profile up to its SELECT id FROM users WHERE email = %s AND
\* id != %s
ProfileCheck(user_id, email) ==
    LET request == ProfileRequest(user_id, email)
    IN  /\ backend = "mysql"
        /\ request \notin in_flight
        /\ Cardinality(in_flight) < MaxInFlight
        /\ IF email = NoEmail \/ \E u \in users : u.email = email /\ u.id # user_id
           THEN /\ response' = UserResponse("update_user_profile", user_id, 400)
                /\ UNCHANGED in_flight
           ELSE /\ in_flight' = in_flight \cup {request}
                /\ UNCHANGED response
        /\ UNCHANGED <<backend, today, activities, next_id, users, next_user_id,
                       job>>

\* update_user_profile from its UPDATE on
ProfileWrite(request) ==
    /\ request.op = "update_user_profile"
    /\ IF /\ \E u \in users : u.id = request.user_id
          /\ \E u \in users : u.email = request.email /\ u.id # request.user_id
       THEN /\ response' = UserResponse("update_user_profile", request.user_id,
                                        500)
            /\ UNCHANGED users
       ELSE WriteProfile(request.user_id, request.email)
    /\ in_flight' = in_flight \ {request}
    /\ UNCHANGED <<backend, today, activities, next_id, next_user_id, job>>

NextUsersConcurrent ==
    \/ \E e \in EmailInputs, p \in Passwords : RegisterCheck(e, p)
    \/ \E request \in in_flight : RegisterInsert(request)
    \/ \E u \in TokenIds, e \in EmailInputs \cup {NoEmail} : ProfileCheck(u, e)
    \/ \E request \in in_flight : ProfileWrite(request)
    \/ \E u \in TokenIds : DeleteUser(u)

SpecUsersConcurrent == InitUsers /\ [][NextUsersConcurrent]_vars

(***************************************************************************)
(* The analytics as a function of the log: the table holds, for user 1 and *)
(* category Sleep, a run of n consecutive days ending `shift` days before  *)
(* today (with a second row on the last day of the run when `twice`),      *)
(* optionally one row dated tomorrow and one row two days before the run;  *)
(* on the day before the run there is a row of user 2 in the same          *)
(* category, a row of user 1 in another category and a row of user 1 in a  *)
(* category that is not one of CATEGORIES. get_trends is applied to it.    *)
(***************************************************************************)
RunRow(id, user_id, category, minutes, d) ==
    [id |-> id, user_id |-> user_id, category |-> category,
     duration_minutes |-> minutes, mood_rating |-> NoMood, activity_date |-> d]

RunLog(t, n, shift, first, future, older, twice) ==
    {RunRow(k, 1, "Sleep", IF k = 1 THEN first ELSE 30, t - shift - (k - 1)) :
        k \in 1..n}
    \cup (IF future THEN {RunRow(n + 1, 1, "Sleep", 30, t + 1)} ELSE {})
    \cup (IF older THEN {RunRow(n + 2, 1, "Sleep", 30, t - shift - n - 1)} ELSE {})
    \cup {RunRow(n + 3, 2, "Sleep", 30, t - shift - n),
          RunRow(n + 4, 1, "Nutrition/Meals", 30, t - shift - n),
          RunRow(n + 5, 1, "Gaming", 30, t - shift - n)}
    \cup (IF twice /\ n > 0 THEN {RunRow(n + 6, 1, "Sleep", 30, t - shift)} ELSE {})

InitRun ==
    /\ backend \in Backends
    /\ today \in RunTodayChoices
    /\ \E n \in 0..MaxRun, shift \in {0, 1}, first \in RunDurations,
          future \in BOOLEAN, older \in BOOLEAN, twice \in BOOLEAN :
           activities = RunLog(today, n, shift, first, future, older, twice)
    /\ next_id = MaxRun + 7
    /\ users = RegisteredUsers
    /\ next_user_id = Cardinality(UserIds) + 1
    /\ in_flight = {}
    /\ job = Idle
    /\ response = NoResponse

NextRun == \E u \in UserIds : GetTrends(u)

SpecRun == InitRun /\ [][NextRun]_vars

(***************************************************************************)
(* What the claims speak about.                                            *)
(***************************************************************************)
IsTrends == response.op = "get_trends" /\ response.status = 200

\* the calendar days on which the user has at least one activity in the category
ActiveDays(user_id, category) ==
    {r.activity_date :
        r \in {x \in activities : x.user_id = user_id /\ x.category = category}}

\* the number of consecutive days of A ending at day D and going backward
RunLength(A, D) ==
    CHOOSE n \in 0..Cardinality(A) :
        (\A k \in 0..(n - 1) : (D - k) \in A) /\ (D - n) \notin A

\* the minutes the user logged in the category on the days of the set
MinutesOn(user_id, category, days) ==
    SumDuration({x \in activities : /\ x.user_id = user_id
                                    /\ x.category = category
                                    /\ x.activity_date \in days})

\* t tenths is total / n rounded to one decimal (either way at a tie),
\* and 0.0 when there is no day
IsRoundedMean(t, total, n) ==
    IF n = 0 THEN t = 0
    ELSE /\ 2 * (10 * total - t * n) <= n
         /\ 2 * (t * n - 10 * total) <= n

\* the k-th earliest day of W
KthDay(W, k) == CHOOSE d \in W : Cardinality({e \in W : e < d}) = k - 1

Entries == 1..Len(CATEGORIES)

(***************************************************************************)
(* C1: streak_days is the number of consecutive calendar days, ending at   *)
(* the reference date and going backward, with at least one activity in    *)
(* the category, whatever other dates the log holds.                       *)
(***************************************************************************)
C1_StreakIsRunLength ==
    IsTrends =>
        \A i \in Entries :
            response.body[i].streak_days =
                RunLength(ActiveDays(response.user_id, CATEGORIES[i]), today)

(***************************************************************************)
(* C2: with no activity of the category dated on the reference date,       *)
(* streak_days is 0, whatever the activity on other dates.                 *)
(***************************************************************************)
C2_NoActivityTodayNoStreak ==
    IsTrends =>
        \A i \in Entries :
            today \notin ActiveDays(response.user_id, CATEGORIES[i])
                => response.body[i].streak_days = 0

\* a trend computed for a category with activity yesterday and none today
C2_Witness ==
    /\ IsTrends
    /\ \E i \in Entries :
          /\ today \notin ActiveDays(response.user_id, CATEGORIES[i])
          /\ (today - 1) \in ActiveDays(response.user_id, CATEGORIES[i])
          /\ response.body[i].streak_days = 0

(***************************************************************************)
(* C3: with activity on D, D-1 and D-2 and none on D-3, get_trends with    *)
(* reference date D returns streak_days = 3.                               *)
(***************************************************************************)
C3_ThreeDayStreak ==
    IsTrends =>
        \A i \in Entries :
            LET A == ActiveDays(response.user_id, CATEGORIES[i])
            IN  ({today, today - 1, today - 2} \subseteq A /\ (today - 3) \notin A)
                    => response.body[i].streak_days = 3

(***************************************************************************)
(* C4: for all inputs 0 <= streak_days <= 31.                              *)
(***************************************************************************)
C4_StreakAtMost31 ==
    IsTrends =>
        \A i \in Entries :
            /\ response.body[i].streak_days >= 0
            /\ response.body[i].streak_days <= 31

(***************************************************************************)
(* C4, amended: 0 <= streak_days, and streak_days is at most the number of *)
(* distinct dates on which the user has activity in the category; there is *)
(* no fixed upper bound.                                                   *)
(***************************************************************************)
C4_StreakAtMostActiveDays ==
    IsTrends =>
        \A i \in Entries :
            /\ response.body[i].streak_days >= 0
            /\ response.body[i].streak_days
                   <= Cardinality(ActiveDays(response.user_id, CATEGORIES[i]))

\* a trend whose streak is longer than 31 days
C4_Witness ==
    /\ IsTrends
    /\ \E i \in Entries : response.body[i].streak_days > 31

C6_MonthlyAverageOverLast30Days ==
    IsTrends =>
        \A i \in Entries :
            LET W == {d \in ActiveDays(response.user_id, CATEGORIES[i]) :
                         today - 30 <= d /\ d <= today}
            IN  IsRoundedMean(response.body[i].monthly_average,
                              MinutesOn(response.user_id, CATEGORIES[i], W),
                              Cardinality(W))

(***************************************************************************)
(* C7: weekly_average is the mean, rounded to one decimal, of the per-day  *)
(* minutes over the active days of the trailing 7 days only (stated here   *)
(* with the widest reading of that window, referenceDate - 7 up to the     *)
(* reference date).                                                        *)
(***************************************************************************)
C7_WeeklyAverageOverTrailingWeek ==
    IsTrends =>
        \A i \in Entries :
            LET W == {d \in ActiveDays(response.user_id, CATEGORIES[i]) :
                         today - 7 <= d /\ d <= today}
            IN  IsRoundedMean(response.body[i].weekly_average,
                              MinutesOn(response.user_id, CATEGORIES[i], W),
                              Cardinality(W))

(***************************************************************************)
(* C8: for a user with no activity at all in a category, the entry of that *)
(* category has weekly_average 0.0, monthly_average 0.0, streak_days 0 and *)
(* data_points [], and the request succeeds.                               *)
(***************************************************************************)
C8_EmptyCategoryIsZero ==
    IsTrends =>
        /\ response.status = 200
        /\ \A i \in Entries :
              ActiveDays(response.user_id, CATEGORIES[i]) = {}
                  => response.body[i] =
                         [category        |-> CATEGORIES[i],
                          weekly_average  |-> 0,
                          monthly_average |-> 0,
                          streak_days     |-> 0,
                          data_points     |-> <<>>]

\* a trend for a user without activity in a category in which another user
\* has activity
C8_Witness ==
    /\ IsTrends
    /\ \E i \in Entries :
          /\ ActiveDays(response.user_id, CATEGORIES[i]) = {}
          /\ \E r \in activities :
                r.category = CATEGORIES[i] /\ r.user_id # response.user_id
          /\ response.body[i].data_points = <<>>

(***************************************************************************)
(* C9: data_points is in strictly ascending date order, with exactly one   *)
(* entry per date of the queried window (activity_date >= referenceDate -  *)
(* 7) on which the user has a record of the category, and no entry for a   *)
(* date without a record.                                                  *)
(***************************************************************************)
C9_DataPointsAscendingNoZeroFill ==
    IsTrends =>
        \A i \in Entries :
            LET W  == {d \in ActiveDays(response.user_id, CATEGORIES[i]) :
                          d >= today - 7}
                dp == response.body[i].data_points
            IN  /\ Len(dp) = Cardinality(W)
                /\ \A k \in 1..Len(dp) : dp[k].date = Strftime(KthDay(W, k))

\* a trend with several data points whose rows were inserted latest day
\* first, over a log that also has a day before the window
C9_Witness ==
    /\ IsTrends
    /\ \E i \in Entries :
          /\ Len(response.body[i].data_points) >= 2
          /\ \E d \in ActiveDays(response.user_id, CATEGORIES[i]) : d < today - 7
          /\ \E r1, r2 \in activities :
                /\ r1.user_id = response.user_id /\ r2.user_id = response.user_id
                /\ r1.category = CATEGORIES[i] /\ r2.category = CATEGORIES[i]
                /\ r2.activity_date >= today - 7
                /\ r1.id < r2.id /\ r1.activity_date > r2.activity_date

(***************************************************************************)
(* C10: data_points covers the trailing 7 days only: every date in it is   *)
(* one of the last 7 calendar days ending at the reference date, so there  *)
(* are at most 7 entries and none dated after the reference date.          *)
(***************************************************************************)
C10_DataPointsWithinLast7Days ==
    IsTrends =>
        \A i \in Entries :
            LET dp == response.body[i].data_points
            IN  /\ Len(dp) <= 7
                /\ \A k \in 1..Len(dp) :
                      dp[k].date \in {Strftime(today - j) : j \in 0..6}

(***************************************************************************)
(* C11: records that share user, category and date count as one day: one   *)
(* data point whose minutes is the sum of their duration_minutes, one unit *)
(* in the divisor of each average (taken over the days the handler         *)
(* queries), and one day of the streak, which is the length of the run of  *)
(* days ending today when no day of the log is later than today.           *)
(***************************************************************************)
C11_SameDayRecordsAreOneDay ==
    IsTrends =>
        \A i \in Entries :
            LET A == ActiveDays(response.user_id, CATEGORIES[i])
                W == {d \in A : d >= today - 7}
                M == {d \in A : d >= today - 30}
                e == response.body[i]
            IN  /\ Len(e.data_points) = Cardinality(W)
                /\ \A k \in 1..Len(e.data_points) :
                       e.data_points[k].minutes =
                           MinutesOn(response.user_id, CATEGORIES[i], {KthDay(W, k)})
                /\ IsRoundedMean(e.weekly_average,
                                 MinutesOn(response.user_id, CATEGORIES[i], W),
                                 Cardinality(W))
                /\ IsRoundedMean(e.monthly_average,
                                 MinutesOn(response.user_id, CATEGORIES[i], M),
                                 Cardinality(M))
                /\ (\A d \in A : d <= today) => e.streak_days = RunLength(A, today)

\* a trend over a log with two records on the reference date and a run of
\* earlier days: one data point with the sum, a streak that counts the day once
C11_Witness ==
    /\ IsTrends
    /\ \E i \in Entries : \E r1, r2 \in activities :
          LET e == response.body[i]
              A == ActiveDays(response.user_id, CATEGORIES[i])
          IN  /\ r1.id # r2.id
              /\ r1.user_id = response.user_id /\ r2.user_id = response.user_id
              /\ r1.category = CATEGORIES[i] /\ r2.category = CATEGORIES[i]
              /\ r1.activity_date = today /\ r2.activity_date = today
              /\ A = {today - k : k \in 0..2}
              /\ Len(e.data_points) = 3
              /\ e.data_points[3].minutes
                     = r1.duration_minutes + r2.duration_minutes
              /\ e.streak_days = 3

(***************************************************************************)
(* C12: a successful get_trends response has exactly one entry per fixed   *)
(* category, in the order of CATEGORIES, and none for any other category,  *)
(* whatever categories the stored activities have.                         *)
(***************************************************************************)
C12_OneEntryPerFixedCategory ==
    IsTrends =>
        /\ Len(response.body) = Len(CATEGORIES)
        /\ \A i \in 1..Len(response.body) :
               i <= Len(CATEGORIES) /\ response.body[i].category = CATEGORIES[i]

\* a trend for a user who has stored a record in a category outside the
\* fixed set, and records in only two of the fixed ones
C12_Witness ==
    /\ IsTrends
    /\ \E r \in activities :
          /\ r.user_id = response.user_id
          /\ \A i \in Entries : r.category # CATEGORIES[i]
    /\ Len(response.body) = 10
    /\ \A i \in 1..Len(response.body) :
           \A j \in 1..Len(response.body) :
               response.body[i].category = response.body[j].category => i = j

(***************************************************************************)
(* C20: get_trends terminates on every finite log: the category loop runs  *)
(* at most 10 iterations and the body of the streak loop runs at most 31   *)
(* times per category.                                                     *)
(***************************************************************************)
C20_WalkAtMost31Steps ==
    IsTrends =>
        /\ Len(response.walk) <= 10
        /\ \A i \in 1..Len(response.walk) : response.walk[i] <= 31

(***************************************************************************)
(* C20, amended: the category loop runs 10 iterations and the body of the  *)
(* streak loop runs at most once per distinct date on which the user has   *)
(* activity in the category (so the handler terminates on a finite log),   *)
(* with no fixed bound.                                                    *)
(***************************************************************************)
C20_WalkAtMostActiveDays ==
    IsTrends =>
        /\ Len(response.walk) = 10
        /\ \A i \in 1..Len(response.walk) :
               response.walk[i]
                   <= Cardinality(ActiveDays(response.user_id, CATEGORIES[i]))

\* a trend whose streak loop ran more than 31 times for a category
C20_Witness ==
    /\ IsTrends
    /\ \E i \in 1..Len(response.walk) : response.walk[i] > 31

(***************************************************************************)
(* C14: get_trends and get_daily_summary have no side effect: a step that  *)
(* answers one of them, with success or with an error, leaves the users    *)
(* table and the activities table (rows and id counter) as they were.      *)
(***************************************************************************)
C14_ReadsChangeNoTable ==
    [][response'.op \in {"get_trends", "get_daily_summary"}
          => /\ activities' = activities
             /\ users' = users
             /\ next_id' = next_id]_vars

\* a failed get_trends, or a failed get_daily_summary, answered over a table
\* that holds rows of the caller
C14_Witness ==
    /\ response.op \in {"get_trends", "get_daily_summary"}
    /\ response.status = 500
    /\ \E r \in activities : r.user_id = response.user_id
    /\ users = RegisteredUsers

(***************************************************************************)
(* C17: after any sequence of create_activity, update_activity and delete  *)
(* requests (some of them with a negative duration or a mood outside 1..5) *)
(* every stored record has duration_minutes >= 0 and a mood_rating that is *)
(* absent or in 1..5.                                                      *)
(***************************************************************************)
C17_StoredValuesInRange ==
    \A r \in activities :
        /\ r.duration_minutes >= 0
        /\ r.mood_rating = NoMood
               \/ (r.mood_rating[1] >= 1 /\ r.mood_rating[1] <= 5)

\* an update with a value out of range was refused, and the table holds a
\* record with duration 0 and a record with mood 5
C17_Witness ==
    /\ response.op = "update_activity"
    /\ response.status = 422
    /\ \E r \in activities : r.duration_minutes = 0
    /\ \E r \in activities : r.mood_rating = <<5>>

(***************************************************************************)
(* C18: after any sequence of create_activity and update_activity calls    *)
(* the category of every stored record is one of the ten fixed categories: *)
(* a create or update naming another category is not stored.               *)
(***************************************************************************)
C18_StoredCategoryIsFixed ==
    \A r \in activities : \E i \in Entries : r.category = CATEGORIES[i]

\* the records of the user
OwnRecords(user_id) == {r \in activities : r.user_id = user_id}

(***************************************************************************)
(* C19: the trends of a user depend only on the user's own records: when a *)
(* step changes the activities table and leaves the records of a user as   *)
(* they were, get_trends gives that user the same result on the table      *)
(* before and on the table after.                                          *)
(***************************************************************************)
C19_TrendsDependOnOwnRecords ==
    [][\A u \in UserIds :
           (activities' # activities /\ OwnRecords(u)' = OwnRecords(u))
               => Trends(backend, u, today)' = Trends(backend, u, today)]_vars

\* a trend answered to a user over a table where another user has a record
\* in the same category on the same day: the data point is the user's own
C19_Witness ==
    /\ IsTrends
    /\ \E r1, r2 \in activities : \E i \in Entries :
          /\ r1.user_id = response.user_id
          /\ r2.user_id # response.user_id
          /\ r1.category = CATEGORIES[i] /\ r2.category = CATEGORIES[i]
          /\ r1.activity_date = r2.activity_date
          /\ r1.duration_minutes > 0 /\ r2.duration_minutes > 0
          /\ Len(response.body[i].data_points) = 1
          /\ response.body[i].data_points[1].minutes = r1.duration_minutes

(***************************************************************************)
(* C15: when get_trends runs while other requests create and delete        *)
(* activities, every entry of its result is the entry of one state of the  *)
(* activities table: one of the states its four queries of that category   *)
(* have read, never a mix of two of them.                                  *)
(***************************************************************************)
C15_EntryFromOneSnapshot ==
    (response.op = "get_trends" /\ response.status = 200) =>
        \A i \in 1..Len(response.body) :
            response.body[i] \in response.snapshots[i]

(***************************************************************************)
(* C16: when a query of get_trends fails the caller gets an error and no   *)
(* trend entry: a request that ends either has run all the queries of all  *)
(* ten categories and answers the ten entries, or it answers 500 with no   *)
(* entry at all.                                                           *)
(***************************************************************************)
C16_FailureGivesErrorAndNoEntries ==
    [][(job # Idle /\ job' = Idle) =>
          /\ response'.op = "get_trends"
          /\ response'.user_id = job.user_id
          /\ \/ /\ response'.status = 200
                /\ job.i = Len(CATEGORIES) /\ job.q = 4
                /\ Len(response'.body) = Len(CATEGORIES)
             \/ /\ response'.status = 500
                /\ response'.body = <<>>]_vars

\* a get_trends that failed at one of its queries, answered with an error,
\* over a table that holds a record of the caller
C16_Witness ==
    /\ job = Idle
    /\ response.op = "get_trends"
    /\ response.status = 500
    /\ response.body = <<>>
    /\ \E r \in activities : r.user_id = response.user_id

\* the sum of the minutes of a list of data points
RECURSIVE SumMinutes(_)
SumMinutes(points) ==
    IF points = <<>> THEN 0
    ELSE points[1].minutes + SumMinutes(Tail(points))

(***************************************************************************)
(* C28: in every get_trends response computed from one state of the log,   *)
(* the weekly_average of an entry is the mean, rounded to one decimal, of  *)
(* the minutes of that entry's data_points (0.0 when there is none), and   *)
(* an entry with streak_days >= 1 has a data point for the reference date. *)
(***************************************************************************)
C28_WeeklyAverageIsMeanOfDataPoints ==
    IsTrends =>
        \A i \in Entries :
            LET e == response.body[i]
            IN  /\ IsRoundedMean(e.weekly_average, SumMinutes(e.data_points),
                                 Len(e.data_points))
                /\ e.streak_days >= 1
                       => \E k \in 1..Len(e.data_points) :
                              e.data_points[k].date = Strftime(today)

\* a trend with eight data points of different minutes, from today - 7 to
\* today, a weekly average that is not 0 and a streak of more than 7 days
C28_Witness ==
    /\ IsTrends
    /\ \E i \in Entries :
          LET e == response.body[i]
          IN  /\ Len(e.data_points) = 8
              /\ e.data_points[1].date = Strftime(today - 7)
              /\ e.data_points[8].date = Strftime(today)
              /\ e.data_points[8].minutes # e.data_points[1].minutes
              /\ e.weekly_average > 0
              /\ e.streak_days > 7

\* the other storage variant
OtherBackend(b) == IF b = "mysql" THEN "sqlite" ELSE "mysql"

(***************************************************************************)
(* C29: on the same log, for the same user and reference date, the MySQL   *)
(* variant and the SQLite variant of get_trends return the same list: the  *)
(* response of the one is what the other computes.                         *)
(***************************************************************************)
C29_VariantsAgreeOnTrends ==
    IsTrends =>
        response.body = Trends(OtherBackend(backend), response.user_id, today)

\* a trend of the SQLite variant over a run of days that crosses the end of
\* a month, with an average that needs rounding
C29_Witness ==
    /\ IsTrends
    /\ backend = "sqlite"
    /\ \E i \in Entries :
          LET e == response.body[i]
          IN  /\ Len(e.data_points) = 8
              /\ e.data_points[1].date[2] # e.data_points[8].date[2]
              /\ e.streak_days > 7
              /\ e.monthly_average % 10 # 0

\* the response is a daily summary
IsSummary == response.op = "get_daily_summary" /\ response.status = 200

\* the day whose 'YYYY-MM-DD' text is the date of the summary answered
SummaryDay == CHOOSE d \in (today - 1)..today : Strftime(d) = response.body[1].date

\* the sum of duration_minutes over the entries of a categories map
RECURSIVE SumOfMap(_, _)
SumOfMap(categories, keys) ==
    IF keys = {} THEN 0
    ELSE LET c == CHOOSE x \in keys : TRUE
         IN  categories[c].duration_minutes + SumOfMap(categories, keys \ {c})

(***************************************************************************)
(* C25: the categories map of get_daily_summary has every one of the ten   *)
(* fixed categories; each category of the map has as duration_minutes the  *)
(* sum of the user's durations for that category on the date of the        *)
(* summary (0, with entry_count 0 and percentage 0, without activity), and *)
(* total_logged_minutes is the sum of duration_minutes over the map.       *)
(***************************************************************************)
C25_SummaryMapAndTotals ==
    IsSummary =>
        LET body == response.body[1]
            keys == DOMAIN body.categories
        IN  /\ \A i \in Entries : CATEGORIES[i] \in keys
            /\ \A c \in keys :
                   /\ body.categories[c].duration_minutes
                          = MinutesOn(response.user_id, c, {SummaryDay})
                   /\ SummaryDay \notin ActiveDays(response.user_id, c)
                          => /\ body.categories[c].entry_count = 0
                             /\ body.categories[c].percentage = 0
            /\ body.total_logged_minutes = SumOfMap(body.categories, keys)

(***************************************************************************)
(* C26: the completion_percentage of get_daily_summary is between 0 and    *)
(* 100 and is 100 times the fraction of the ten fixed categories in which  *)
(* the user has more than 0 minutes on the date (here in tenths).          *)
(***************************************************************************)
C26_CompletionIsFractionOfFixedCategories ==
    IsSummary =>
        LET body == response.body[1]
            done == {i \in Entries :
                        MinutesOn(response.user_id, CATEGORIES[i], {SummaryDay}) > 0}
        IN  /\ body.completion_percentage >= 0
            /\ body.completion_percentage <= 1000
            /\ body.completion_percentage * Len(CATEGORIES)
                   = 1000 * Cardinality(done)

(***************************************************************************)
(* C21: a record keeps its owner; a get, update or delete request of a     *)
(* user (single, bulk or by date) leaves the records of the other users as *)
(* they are and get_activity answers only a record of the caller; when the *)
(* targeted id does not exist or belongs to another user, get, update and  *)
(* delete answer 404 and the activities table is unchanged.                *)
(***************************************************************************)
C21_OnlyOwnRecords ==
    [][/\ \A r \in activities : \A q \in activities' :
              r.id = q.id => r.user_id = q.user_id
       /\ response'.op \in {"get_activity", "update_activity", "delete_activity",
                            "delete_multiple_activities",
                            "delete_activities_by_date"}
              => \A r \in activities \cup activities' :
                     r.user_id # response'.user_id
                         => (r \in activities /\ r \in activities')
       /\ (response'.op = "get_activity" /\ response'.status = 200)
              => response'.body[1] \in OwnRecords(response'.user_id)
       /\ \A u \in UserIds : \A id \in 1..MaxActivities :
              (/\ ~\E r \in activities : r.id = id /\ r.user_id = u
               /\ \/ GetActivity(u, id)
                  \/ DeleteActivity(u, id)
                  \/ \E a \in SharedActivityInputs : UpdateActivity(u, id, a))
                  => (response'.status = 404 /\ activities' = activities)]_vars

\* a delete answered 404 to a user while every id ever issued is a record
\* of the other user, and all of them are still there
C21_Witness ==
    /\ response.op = "delete_activity"
    /\ response.status = 404
    /\ next_id = MaxActivities + 1
    /\ Cardinality(activities) = MaxActivities
    /\ \A r \in activities : r.user_id # response.user_id

(***************************************************************************)
(* C27: DELETE /activities/bulk with a non-empty list of ids deletes       *)
(* exactly the listed activities of the caller, answers their number as    *)
(* deleted_count and leaves every other activity as it is.                 *)
(***************************************************************************)
C27_BulkDeleteIsHandled ==
    [][\A u \in UserIds : \A ids \in SUBSET (1..MaxActivities) :
           (ids # {} /\ HttpDelete(u, BulkPath, ids))
               => LET listed == {r \in activities : r.id \in ids /\ r.user_id = u}
                  IN  /\ activities' = activities \ listed
                      /\ response'.status = 200
                      /\ response'.body = <<[deleted_count |-> Cardinality(listed)]>>]_vars

(***************************************************************************)
(* C23: delete_user answers 200 exactly for a user that exists, and then   *)
(* the users table loses that row only and the activities table loses the  *)
(* activities of that user only; for a user id that has no row it answers  *)
(* 404 and both tables are unchanged.                                      *)
(***************************************************************************)
C23_DeleteUserRemovesOwnData ==
    [][response'.op = "delete_user" =>
           LET u == response'.user_id
           IN  IF \E x \in users : x.id = u
               THEN /\ response'.status = 200
                    /\ users' = {x \in users : x.id # u}
                    /\ activities' = {r \in activities : r.user_id # u}
               ELSE /\ response'.status = 404
                    /\ users' = users
                    /\ activities' = activities]_vars

\* user 1 has been deleted after both activity ids were issued to existing
\* users, and only the activity of user 2 is left
C23_Witness ==
    /\ response.op = "delete_user"
    /\ response.status = 200
    /\ response.user_id = 1
    /\ next_id = MaxActivities + 1
    /\ \E x \in users : x.id = 2
    /\ Cardinality(activities) = 1
    /\ \A r \in activities : r.user_id = 2 /\ r.id = 1

(***************************************************************************)
(* C24: login answers 200 exactly for a registered email with the password *)
(* last set for it: no password logs in to an unregistered email, after a  *)
(* successful register exactly the registered password logs in, a request  *)
(* that is not a register, profile update, password update or delete_user  *)
(* changes no login answer; update_password with a current_password that   *)
(* does not log in answers 400 and leaves users unchanged, with one that    *)
(* does it answers 200 and afterwards exactly new_password logs in.         *)
(***************************************************************************)
C24_LoginFollowsCurrentPassword ==
    [][/\ \A e \in EmailInputs : \A p \in Passwords :
              /\ (~\E u \in users : u.email = e) => LoginStatus(e, p) = 401
              /\ Login(e, p) => (response'.status = LoginStatus(e, p)
                                 /\ users' = users)
              /\ (Register(e, p) /\ response'.status = 200)
                     => \A p2 \in Passwords :
                            (LoginStatus(e, p2)' = 200) <=> (p2 = p)
       /\ \A u \in users : \A cur \in Passwords : \A new \in Passwords :
              UpdatePassword(u.id, cur, new)
                  => IF LoginStatus(u.email, cur) = 200
                     THEN /\ response'.status = 200
                          /\ \A p2 \in Passwords :
                                 (LoginStatus(u.email, p2)' = 200) <=> (p2 = new)
                     ELSE /\ response'.status = 400
                          /\ users' = users
       /\ response'.op \notin {"register", "update_password",
                               "update_user_profile", "delete_user"}
              => \A e \in EmailInputs : \A p \in Passwords :
                     LoginStatus(e, p)' = LoginStatus(e, p)]_vars

\* a password update to "q" has succeeded and "p" no longer logs in
C24_Witness ==
    /\ response.op = "update_password"
    /\ response.status = 200
    /\ \E u \in users : /\ u.id = response.user_id
                        /\ u.password_hash = HashPassword("q")
                        /\ LoginStatus(u.email, "q") = 200
                        /\ LoginStatus(u.email, "p") = 401

(***************************************************************************)
(* C22: under interleaved register and update_user_profile requests no two *)
(* users ever have the same email, and a register for an email that is     *)
(* registered when the request is decided, or a profile update to an email *)
(* that another user holds then, is answered 400 with the users table      *)
(* unchanged.                                                              *)
(***************************************************************************)
C22_EmailsUniqueAndDuplicatesRejected ==
    [][/\ \A u \in users' : \A v \in users' : u.email = v.email => u.id = v.id
       /\ \A e \in EmailInputs : \A p \in Passwords :
              (/\ \E u \in users : u.email = e
               /\ \/ RegisterCheck(e, p)
                  \/ RegisterInsert(RegisterRequest(e, p)))
                  => (response'.status = 400 /\ users' = users)
       /\ \A id \in TokenIds : \A e \in EmailInputs :
              (/\ \E u \in users : u.email = e /\ u.id # id
               /\ \E u \in users : u.id = id
               /\ \/ ProfileCheck(id, e)
                  \/ ProfileWrite(ProfileRequest(id, e)))
                  => (response'.status = 400 /\ users' = users)]_vars

====
